---- MODULE Spec2Model ----
(***************************************************************************)
(* ExtronClient (custom_components/extron_mav/extron_client.py) and the    *)
(* coordinator / select glue that calls it, as a state machine.            *)
(*                                                                         *)
(* Every coroutine runs atomically between two awaits (asyncio is          *)
(* cooperative); one action of the model is one such segment.  The         *)
(* suspension points are: the lock acquisition, open_connection, readuntil,*)
(* drain, wait_closed and asyncio.sleep.                                   *)
(*                                                                         *)
(* Text is a sequence of one-character strings, so that "in", startswith,  *)
(* re.search and int() are computed on the characters.                     *)
(*                                                                         *)
(* Three specifications share the actions:                                 *)
(*   Spec      NumTasks tasks call connect, disconnect, get_info,          *)
(*             get_output_tie and set_output_tie concurrently; the peer    *)
(*             may send any line of PeerLines at a read;                   *)
(*   SpecSeq   one caller at a time, every entry point (also the           *)
(*             coordinator's refresh and the select entity), the same      *)
(*             peer, and the history of each call is kept;                 *)
(*   SpecEcho  one caller sets and gets ties against the device, which     *)
(*             stores them; no transport fault.                            *)
(***************************************************************************)
EXTENDS Integers, Sequences, FiniteSets, TLC

\* ------------------------------------------------------------------ bounds
NumTasks == 2
MaxCalls == 4
SeqCalls == 2
MaxHandles == 2
MaxOutputs == 2
MaxInputs == 2
MaxTokens == 3

\* --------------------------------------------------------- program constants
RetryBudget == 3

Tasks == 1..NumTasks
Handles == 1..MaxHandles
None == 0

\* ------------------------------------------------------------------- text
Digits == <<"0", "1", "2", "3", "4", "5", "6", "7", "8", "9">>

IsDigit(c) == \E d \in 1..10 : Digits[d] = c

DigitVal(c) == (CHOOSE d \in 1..10 : Digits[d] = c) - 1

Contains(s, sub) ==
  \E i \in 1..(Len(s) - Len(sub) + 1) : SubSeq(s, i, i + Len(sub) - 1) = sub

StartsWith(s, p) == Len(s) >= Len(p) /\ SubSeq(s, 1, Len(p)) = p

IsDigits(s) == Len(s) > 0 /\ \A i \in 1..Len(s) : IsDigit(s[i])

RECURSIVE DigitsToNat(_)
DigitsToNat(s) ==
  IF s = <<>> THEN 0
  ELSE 10 * DigitsToNat(SubSeq(s, 1, Len(s) - 1)) + DigitVal(s[Len(s)])

RECURSIVE NatToStr(_)
NatToStr(n) ==
  IF n < 10 THEN <<Digits[n + 1]>>
  ELSE NatToStr(n \div 10) \o <<Digits[(n % 10) + 1]>>

\* str(int) as the f-strings of lines 176 and 207 apply it
IntToStr(n) == IF n < 0 THEN <<"-">> \o NatToStr(-n) ELSE NatToStr(n)

\* markers the client looks for
PasswordMarker == <<"P", "a", "s", "s", "w", "o", "r", "d", ":">>
LoginMarker == <<"L", "o", "g", "i", "n">>
ErrorMarker == <<"E">>
OutMarker == <<"O", "u", "t">>
CommaMarker == <<",">>
YearMarker == <<"2", "0", "2">>

NoPassword == <<>>
GoodPassword == <<"p", "w">>

\* lines a device sends
Banner == <<"(", "c", ")", " ", "2", "0", "0", "9", ",", " ", "X">>
DateLine == <<"1", ",", " ", "2", "0", "2", "4">>
LoginLine == <<"L", "o", "g", "i", "n", " ", "A">>
InfoLine == <<"V", "2", "X", "1">>
ErrorLine == <<"E", "1", "3">>

\* ------------------------------------------------------- response parsing
Min(S) == CHOOSE x \in S : \A y \in S : x <= y

IsSpace(c) == c = " "

RECURSIVE Strip(_)
Strip(s) ==
  IF s = <<>> THEN s
  ELSE IF IsSpace(s[1]) THEN Strip(Tail(s))
  ELSE IF IsSpace(s[Len(s)]) THEN Strip(SubSeq(s, 1, Len(s) - 1))
  ELSE s

\* positions where re.search(r'In(\d+)', s, re.IGNORECASE) can match
InPositions(s) ==
  {i \in 1..(Len(s) - 2) :
     s[i] \in {"I", "i"} /\ s[i + 1] \in {"N", "n"} /\ IsDigit(s[i + 2])}

\* the greedy \d+ starting at position k
DigitRun(s, k) ==
  LET stop == {j \in k..Len(s) : ~IsDigit(s[j])}
      last == IF stop = {} THEN Len(s) ELSE Min(stop) - 1
  IN  SubSeq(s, k, last)

\* int(text): optional sign, digits, single underscores between digits
PyIntBody(s) == IF s # <<>> /\ s[1] \in {"+", "-"} THEN Tail(s) ELSE s

PyIntOk(s) ==
  LET b == PyIntBody(s)
  IN  /\ b # <<>>
      /\ IsDigit(b[1]) /\ IsDigit(b[Len(b)])
      /\ \A i \in 1..Len(b) : IsDigit(b[i]) \/ b[i] = "_"
      /\ \A i \in 1..(Len(b) - 1) : ~(b[i] = "_" /\ b[i + 1] = "_")

PyIntVal(s) ==
  LET b == PyIntBody(s)
      n == DigitsToNat(SelectSeq(b, IsDigit))
  IN  IF s[1] = "-" THEN -n ELSE n

\* get_output_tie, lines 180-195: does the response parse, and to what
TieParses(response) ==
  InPositions(response) # {} \/ PyIntOk(Strip(response))

\* a parse that reports every output as untied
ParseTieNumber_Untied(response) == 0

ParseTieNumber(response) ==
  IF InPositions(response) # {}
  THEN DigitsToNat(DigitRun(response, Min(InPositions(response)) + 2))
  ELSE IF PyIntOk(Strip(response)) THEN PyIntVal(Strip(response))
  ELSE 0

\* an acknowledgement test that does not look for the error marker
ParseSetAck_NoErrorTest(response) == Contains(response, OutMarker)

\* set_output_tie, line 208
ParseSetAck(response) ==
  Contains(response, OutMarker) /\ ~StartsWith(response, ErrorMarker)

\* _read_response, line 121: the line looks like a timestamp
IsNoise(response) ==
  response # <<>> /\ Contains(response, CommaMarker) /\ Contains(response, YearMarker)

\* a budget that allows one retry more
ShouldSkip_OneMore(response, retry_count) ==
  IsNoise(response) /\ retry_count <= RetryBudget

ShouldSkip(response, retry_count) ==
  IsNoise(response) /\ retry_count < RetryBudget

\* async_select_option, lines 68-74: "None" or "Input <n>"
OptionNone == <<"N", "o", "n", "e">>
OptionInput(n) == <<"I", "n", "p", "u", "t", " ">> \o NatToStr(n)

RECURSIVE LastWord(_)
LastWord(s) ==
  IF s = <<>> \/ IsSpace(s[Len(s)]) THEN <<>>
  ELSE Append(LastWord(SubSeq(s, 1, Len(s) - 1)), s[Len(s)])

OptionToInput(option) ==
  IF option = OptionNone THEN 0 ELSE PyIntVal(LastWord(option))

\* ------------------------------------------------------------ the device
(* The matrix switcher of the wire protocol: it keeps one tie per output,  *)
(* answers "<n>%" with the tie, "<m>*<n>!" by tying and acknowledging, "I" *)
(* with its identification, and asks for a password when one is set.       *)
Pad2(n) == IF n < 10 THEN <<"0">> \o NatToStr(n) ELSE NatToStr(n)

TieLine(o, i) ==
  OutMarker \o Pad2(o) \o <<" ", "I", "n">> \o Pad2(i) \o <<" ", "A", "l", "l">>

BareLine(i) == Pad2(i)

StarPos(s) == {k \in 2..(Len(s) - 2) : s[k] = "*"}

DevIsGet(s) ==
  /\ Len(s) >= 2 /\ s[Len(s)] = "%" /\ IsDigits(SubSeq(s, 1, Len(s) - 1))
  /\ DigitsToNat(SubSeq(s, 1, Len(s) - 1)) \in 1..MaxOutputs

DevGetOutput(s) == DigitsToNat(SubSeq(s, 1, Len(s) - 1))

DevIsSet(s) ==
  /\ Len(s) >= 4 /\ s[Len(s)] = "!" /\ StarPos(s) # {}
  /\ LET k == Min(StarPos(s))
     IN  /\ IsDigits(SubSeq(s, 1, k - 1)) /\ IsDigits(SubSeq(s, k + 1, Len(s) - 1))
         /\ DigitsToNat(SubSeq(s, 1, k - 1)) \in 1..MaxInputs
         /\ DigitsToNat(SubSeq(s, k + 1, Len(s) - 1)) \in 1..MaxOutputs

DevSetInput(s) == DigitsToNat(SubSeq(s, 1, Min(StarPos(s)) - 1))

DevSetOutput(s) == DigitsToNat(SubSeq(s, Min(StarPos(s)) + 1, Len(s) - 1))

\* ------------------------------------------------------------------ state
VARIABLES
  reader,       \* ExtronClient._reader: a handle, or None
  writer,       \* ExtronClient._writer: a handle, or None
  connected,    \* ExtronClient._connected
  lock,         \* ExtronClient._lock: the task holding it, or None
  password,     \* ExtronClient.password
  conn,         \* the stream connections opened so far, and the device's end of each
  devTies,      \* the device's tie of each output
  task,         \* each calling task: its position and the locals of its frames
  calls,        \* API calls the callers may still start
  acked,        \* per output: the input of the last set_output_tie that returned
                \* true, None once another set_output_tie on the output began
  history       \* whether the history fields (steps, lines, outcomes, setres,
                \* result, acked) are kept

vars ==
  <<reader, writer, connected, lock, password, conn, devTies, task,
    calls, acked, history>>

\* the state as one record, so that a code path is a composition of functions
Cur ==
  [reader |-> reader, writer |-> writer, connected |-> connected, lock |-> lock,
   password |-> password, conn |-> conn,
   devTies |-> devTies, task |-> task, calls |-> calls, acked |-> acked,
   history |-> history]

Commit(s) ==
  /\ reader' = s.reader
  /\ writer' = s.writer
  /\ connected' = s.connected
  /\ lock' = s.lock
  /\ password' = s.password
  /\ conn' = s.conn
  /\ devTies' = s.devTies
  /\ task' = s.task
  /\ calls' = s.calls
  /\ acked' = s.acked
  /\ history' = s.history

NoResult == [kind |-> "none"]
Raised == [kind |-> "raise"]
Value(v) == [kind |-> "value", v |-> v]

\* what the device's line answered: nothing yet, a line it sent unasked
\* (kind "line"), or a command (kind "cmd": its text, and the value of calls
\* when it was written, which tells the API calls apart)
NoReply == [kind |-> "none", text |-> <<>>, seq |-> 0]

(* A task.  pc is the await it is suspended at ("idle": in no call):       *)
(*   lock    async with self._lock              (line 139)                 *)
(*   open    asyncio.open_connection            (lines 34-37)              *)
(*   read    self._reader.readuntil             (lines 101-104)            *)
(*   cdrain  drain in _send_command_raw         (line 135)                 *)
(*   drain   drain in _send_command             (line 146)                 *)
(*   closing self._writer.wait_closed           (line 76)                  *)
(*   sleep   asyncio.sleep                      (coordinator.py line 65)   *)
(* rctx is the call site of the pending read: banner (line 40), prompt     *)
(* (line 43), login (line 51) or cmd (line 149).  steps, lines, rr_done,   *)
(* rr_value, sc, outcomes and setres record what the current call has done *)
(* so far: steps the events of the running connect or _send_command, lines *)
(* the lines the running _read_response read, rr_value what it returned,   *)
(* sc how the last _send_command ended, outcomes how each get_output_tie   *)
(* of get_all_ties ended, setres what set_output_tie returned, cfrom       *)
(* whether is_connected held when the running connect began, reply_to     *)
(* what the last line read from the device answered.  hs of a              *)
(* connection records that a connect ran its handshake to the end on it.   *)
IdleTask ==
  [pc |-> "idle", api |-> "none", meth |-> "none", command |-> <<>>,
   input_num |-> 0, output |-> 0, n |-> 0, idx |-> 0, ties |-> <<>>,
   rctx |-> "none", retry_count |-> 0, response |-> <<>>, rd |-> None,
   result |-> NoResult,
   steps |-> <<>>, lines |-> <<>>, rr_done |-> FALSE, rr_value |-> <<>>,
   sc |-> "none", outcomes |-> <<>>, setres |-> "none", cfrom |-> "none",
   reply_to |-> NoReply]

\* a history field is written only when the history is kept
Hist(s, s1) == IF s.history THEN s1 ELSE s

Ev(s, t, e) == Hist(s, [s EXCEPT !.task[t].steps = Append(@, e)])

Sc(s, t, status) == Hist(s, [s EXCEPT !.task[t].sc = status])

\* the API call of task t ends: it returns res or raises
finish(s, t, res) ==
  LET r == s.task[t]
  IN  [s EXCEPT !.task[t] =
         IF s.history
         THEN [r EXCEPT !.pc = "idle", !.result = res, !.rd = None, !.rctx = "none",
                        !.retry_count = 0, !.response = <<>>,
                        !.idx = 0]
         ELSE [IdleTask EXCEPT !.api = r.api, !.result = [kind |-> res.kind]]]

\* is_connected, lines 24-27
is_connected(s) == s.connected /\ s.writer # None

\* _send_command, lines 137-139: up to the lock acquisition
send_command(s, t, command) ==
  [Sc(s, t, "waiting") EXCEPT !.task[t].pc = "lock", !.task[t].command = command]

\* get_output_tie, line 176
get_output_tie(s, t, output) ==
  send_command([s EXCEPT !.task[t].meth = "get_output_tie"], t,
               IntToStr(output) \o <<"%">>)

\* get_all_ties, line 227, and its callers' continuations:
\* _async_update_data line 55 and the refresh asked for by async_set_output_tie
all_ties_return(s, t) ==
  LET r == s.task[t]
  IN  IF r.api = "get_all_ties" THEN finish(s, t, Value(r.ties))
      ELSE IF r.api = "update" THEN finish(s, t, Value([ties |-> r.ties]))
      ELSE finish(s, t, Value("refreshed"))

\* get_all_ties, lines 220-222: the loop head
all_ties_loop(s, t, output) ==
  IF output <= s.task[t].n
  THEN get_output_tie([s EXCEPT !.task[t].idx = output], t, output)
  ELSE all_ties_return(s, t)

\* get_all_ties, lines 223 and 226: ties[output] = value, then the next output
all_ties_store(s, t, value, outcome) ==
  LET r == s.task[t]
      put(f) == [o \in (DOMAIN f) \cup {r.idx} |-> IF o = r.idx THEN value ELSE f[o]]
      s0 == Hist(s, [s EXCEPT !.task[t].outcomes =
                                [o \in (DOMAIN @) \cup {r.idx} |->
                                   IF o = r.idx THEN outcome ELSE @[o]]])
      s1 == [s0 EXCEPT !.task[t].ties = put(@)]
  IN  all_ties_loop(s1, t, r.idx + 1)

\* whether the running get_output_tie was called by get_all_ties
InAllTies(r) ==
  r.meth = "get_output_tie" /\ r.api \in {"get_all_ties", "update", "select_option"}

\* an exception leaves get_info / get_output_tie / set_output_tie:
\* get_all_ties catches it (lines 224-226), the other callers let it through
\* a get_all_ties that lets the exception through
method_raised_Uncaught(s, t, why) == finish(s, t, Raised)

method_raised(s, t, why) ==
  IF InAllTies(s.task[t]) THEN all_ties_store(s, t, 0, why)
  ELSE finish(s, t, Raised)

\* set_output_tie returns success (lines 205 and 215) to its caller: the API
\* caller, or coordinator.async_set_output_tie, which sleeps next (line 65)
set_returned(s, t, success) ==
  LET r == s.task[t]
      s1 == Hist(s, [s EXCEPT !.task[t].setres = IF success THEN "true" ELSE "false",
                              !.acked[r.output] = IF success THEN r.input_num ELSE @])
  IN  IF r.api = "set_output_tie" THEN finish(s1, t, Value(success))
      ELSE [s1 EXCEPT !.task[t].pc = "sleep"]

\* _send_command returned response to the method that called it
method_returned(s, t, response) ==
  LET r == s.task[t]
  IN  IF r.meth = "get_info" THEN finish(s, t, Value(response))
      ELSE IF r.meth = "get_output_tie"
      THEN IF InAllTies(r)
           THEN all_ties_store(s, t, ParseTieNumber(response),
                               IF TieParses(response) THEN "ok" ELSE "unparsed")
           ELSE finish(s, t, Value(ParseTieNumber(response)))
      ELSE set_returned(s, t, ParseSetAck(response))     \* lines 208-215

\* an "async with" that keeps the lock on exit
release_Never(s, t) == s

\* leaving "async with self._lock"
release(s, t) == [s EXCEPT !.lock = IF @ = t THEN None ELSE @]

\* _send_command, lines 150-156
send_command_return(s, t, response) ==
  method_returned(
    release(Ev(Sc(s, t, "returned"), t, "response"), t), t, response)

\* _send_command, lines 159-162
send_command_except(s, t) ==
  method_raised(
    release(Ev(Sc([s EXCEPT !.connected = FALSE], t, "raised_io"), t, "cmdfail"), t),
    t, "io")

\* a failed reconnect that leaves "async with" without releasing the lock
connect_raised_KeepsLock(s, t) ==
  LET s1 == Ev(s, t, "connectfail")
  IN  IF s1.task[t].api = "connect" THEN finish(s1, t, Raised)
      ELSE method_raised(Sc(s1, t, "raised_connect"), t, "connect")

\* connect raised: to the caller of connect(), or through _ensure_connected
\* (line 93) out of _send_command, whose try does not cover it
connect_raised(s, t) ==
  LET s1 == Ev(s, t, "connectfail")
  IN  IF s1.task[t].api = "connect" THEN finish(s1, t, Raised)
      ELSE method_raised(release(Sc(s1, t, "raised_connect"), t), t, "connect")

\* connect, lines 65-68
connect_except(s, t) == connect_raised([s EXCEPT !.connected = FALSE], t)

\* connect, lines 62-64
connect_timeout(s, t) == connect_raised(s, t)

\* StreamWriter.write: the line is on its way to the device, unless the stream
\* is closed
transport_write(s, h, line) ==
  IF s.conn[h].st = "open" /\ s.conn[h].dev
  THEN [s EXCEPT !.conn[h].q =
                   Append(@, [kind |-> "cmd", text |-> line, seq |-> s.calls])]
  ELSE s

\* _send_command, lines 143-146
send_write(s, t) ==
  IF s.writer = None THEN send_command_except(Ev(s, t, "nowriter"), t)
  ELSE [Ev(transport_write(s, s.writer, s.task[t].command), t, "write")
          EXCEPT !.task[t].pc = "drain", !.task[t].rd = s.writer]

\* connect, lines 59-60, and the return into _send_command (line 141)
connect_done(s, t) ==
  LET s1 == Ev(Hist([s EXCEPT !.connected = TRUE],
                    [s EXCEPT !.connected = TRUE, !.conn[s.task[t].rd].hs = TRUE]),
               t, "connected")
  IN  IF s1.task[t].api = "connect" THEN finish(s1, t, Value("ok"))
      ELSE send_write(s1, t)

\* _read_until_prompt, lines 109-112, and the handler of its caller
read_failed(s, t) ==
  LET s1 == [s EXCEPT !.connected = FALSE]
  IN  IF s1.task[t].rctx = "cmd" THEN send_command_except(s1, t)
      ELSE connect_except(s1, t)

\* _read_until_prompt, lines 97-104: up to the await
read_until_prompt(s, t) ==
  IF s.reader = None THEN read_failed(Ev(s, t, "noreader"), t)
  ELSE [s EXCEPT !.task[t].pc = "read", !.task[t].rd = s.reader]

\* _read_response, lines 116 and 120
read_response(s, t, site) ==
  read_until_prompt(
    [Hist(s, [s EXCEPT !.task[t].lines = <<>>, !.task[t].rr_done = FALSE,
                       !.task[t].reply_to = NoReply])
       EXCEPT !.task[t].rctx = site, !.task[t].retry_count = 0], t)

\* _send_command_raw, lines 129-135
send_command_raw(s, t, command) ==
  IF s.writer = None THEN connect_except(Ev(s, t, "nowriter"), t)
  ELSE [Ev(transport_write(s, s.writer, command), t, "cred")
          EXCEPT !.task[t].pc = "cdrain", !.task[t].rd = s.writer]

\* a connect that answers the password prompt without testing self.password
connect_after_prompt_NoTest(s, t, response) ==
  IF Contains(response, PasswordMarker)
  THEN send_command_raw(Ev(s, t, "pwprompt"), t, s.password)
  ELSE connect_done(Ev(s, t, "prompt"), t)

\* connect, lines 44-59
connect_after_prompt(s, t, response) ==
  IF Contains(response, PasswordMarker)
  THEN IF s.password = NoPassword
       THEN connect_except(Ev(Ev(s, t, "pwprompt"), t, "authfail"), t)
       ELSE send_command_raw(Ev(s, t, "pwprompt"), t, s.password)
  ELSE connect_done(Ev(s, t, "prompt"), t)

\* connect, lines 53-59
connect_after_login(s, t, login_response) ==
  IF ~Contains(login_response, LoginMarker)
  THEN connect_except(Ev(s, t, "authfail"), t)
  ELSE connect_done(Ev(s, t, "login"), t)

\* _read_response returned, line 127, to its call site
read_response_return(s, t, response) ==
  LET s1 == [Hist(s, [s EXCEPT !.task[t].rr_done = TRUE,
                              !.task[t].rr_value = response])
               EXCEPT !.task[t].response = <<>>, !.task[t].retry_count = 0]
  IN  IF s1.task[t].rctx = "prompt" THEN connect_after_prompt(s1, t, response)
      ELSE IF s1.task[t].rctx = "login" THEN connect_after_login(s1, t, response)
      ELSE send_command_return(s1, t, response)

\* readuntil returned line (lines 105 and 108: the empty text on a timeout)
read_returned(s, t, line) ==
  LET r == s.task[t]
  IN  IF r.rctx = "banner" THEN read_response(Ev(s, t, "banner"), t, "prompt")
      ELSE \* _read_response, lines 116-127
           LET s1 == [Hist(s, [s EXCEPT !.task[t].lines = Append(@, line)])
                        EXCEPT !.task[t].response = line]
           IN  IF ShouldSkip(line, r.retry_count)
               THEN read_until_prompt(
                      [s1 EXCEPT !.task[t].retry_count = @ + 1], t)
               ELSE read_response_return(s1, t, line)

\* connect, lines 29-37: up to the await of open_connection
connect(s, t) ==
  [Hist(s, [s EXCEPT !.task[t].cfrom =
                       IF is_connected(s) THEN "connected" ELSE "disconnected"])
     EXCEPT !.task[t].pc = "open"]

\* an _ensure_connected that reconnects whatever is_connected says
ensure_connected_Always(s, t) == connect(Ev(s, t, "reconnect"), t)

\* an _ensure_connected that never reconnects
ensure_connected_Never(s, t) == send_write(s, t)

\* _ensure_connected, lines 85-93, then _send_command line 143
ensure_connected(s, t) ==
  IF ~is_connected(s) THEN connect(Ev(s, t, "reconnect"), t)
  ELSE send_write(s, t)

\* disconnect, lines 79-83
disconnect_finally(s, t) ==
  finish([s EXCEPT !.reader = None, !.writer = None, !.connected = FALSE],
         t, Value("ok"))

\* disconnect, lines 72-76: up to the await of wait_closed; close() raising
\* goes to the handler and the finally clause at once
disconnect(s, t, close_raises) ==
  IF s.writer # None
  THEN IF close_raises THEN disconnect_finally(Ev(s, t, "closeerror"), t)
       ELSE [s EXCEPT !.conn[s.writer].st = "closed",
                      !.task[t].pc = "closing", !.task[t].rd = s.writer]
  ELSE finish(s, t, Value("ok"))

\* a set_output_tie without the test of line 201
set_output_tie_NoGuard(s, t, input_num, output) ==
  send_command([Hist(s, [s EXCEPT !.acked[output] = None])
                  EXCEPT !.task[t].meth = "set_output_tie",
                         !.task[t].input_num = input_num, !.task[t].output = output],
               t, IntToStr(input_num) \o <<"*">> \o IntToStr(output) \o <<"!">>)

\* set_output_tie, lines 197-207
set_output_tie(s, t, input_num, output) ==
  LET s1 == [s EXCEPT !.task[t].meth = "set_output_tie",
                      !.task[t].input_num = input_num, !.task[t].output = output]
  IN  IF input_num = 0 THEN set_returned(s1, t, FALSE)
      ELSE send_command(Hist(s1, [s1 EXCEPT !.acked[output] = None]), t,
                        IntToStr(input_num) \o <<"*">> \o IntToStr(output) \o <<"!">>)

\* get_all_ties, lines 217-220
get_all_ties(s, t, n) ==
  all_ties_loop([s EXCEPT !.task[t].meth = "get_output_tie", !.task[t].n = n,
                          !.task[t].ties = <<>>], t, 1)

\* a task enters an API call
begin(s, t, api) ==
  [s EXCEPT !.task[t] = [IdleTask EXCEPT !.api = api], !.calls = @ - 1]

\* ------------------------------------------------------- the device's end
Greeting(auth) ==
  IF auth = "ready" THEN <<[kind |-> "line", text |-> Banner, seq |-> 0]>>
  ELSE <<[kind |-> "line", text |-> Banner, seq |-> 0],
         [kind |-> "line", text |-> PasswordMarker, seq |-> 0]>>

\* the lines the device may answer to text on a connection in state auth
DevReplies(s, auth, text) ==
  IF auth # "ready"
  THEN IF auth = "good" /\ text = GoodPassword THEN {LoginLine} ELSE {PasswordMarker}
  ELSE IF text = <<"I">> THEN {InfoLine}
  ELSE IF DevIsGet(text)
  THEN {BareLine(s.devTies[DevGetOutput(text)]),
        TieLine(DevGetOutput(text), s.devTies[DevGetOutput(text)])}
  ELSE IF DevIsSet(text) THEN {TieLine(DevSetOutput(text), DevSetInput(text))}
  ELSE {ErrorLine}

\* the device after it processed the head of connection h's queue
DevApply(s, h) ==
  LET item == Head(s.conn[h].q)
      auth == s.conn[h].auth
      s1 == [s EXCEPT !.conn[h].q = Tail(@)]
  IN  IF item.kind = "line" THEN s1
      ELSE IF auth # "ready"
      THEN IF auth = "good" /\ item.text = GoodPassword
           THEN [s1 EXCEPT !.conn[h].auth = "ready"] ELSE s1
      ELSE IF DevIsSet(item.text)
      THEN [s1 EXCEPT !.devTies[DevSetOutput(item.text)] = DevSetInput(item.text)]
      ELSE s1

Unopened == {h \in Handles : conn[h].st = "unopened"}

\* what a peer may send as one line
PeerLines ==
  {Banner, DateLine, PasswordMarker, LoginLine, InfoLine, ErrorLine, <<"-", "1">>}
    \cup {BareLine(i) : i \in 0..MaxInputs}
    \cup {TieLine(1, i) : i \in 0..MaxInputs}

\* the pieces a response text is made of, and the texts of up to MaxTokens
\* pieces
Tokens ==
  {<<"I", "n">>, <<"i", "N">>, OutMarker, ErrorMarker, <<"0">>, <<"5">>,
   <<"-">>, <<"_">>, <<" ">>, <<"x">>}

RECURSIVE Concat(_)
Concat(pieces) ==
  IF pieces = <<>> THEN <<>> ELSE Head(pieces) \o Concat(Tail(pieces))

Texts == {Concat(ps) : ps \in UNION {[1..k -> Tokens] : k \in 0..MaxTokens}}

\* ---------------------------------------------------------------- actions
Idle(t) == task[t].pc = "idle" /\ calls > 0

StartConnect(t) ==
  /\ Idle(t)
  /\ Commit(connect(begin(Cur, t, "connect"), t))

StartDisconnect(t) ==
  /\ Idle(t)
  /\ \E close_raises \in BOOLEAN :
       /\ close_raises => writer # None
       /\ Commit(disconnect(begin(Cur, t, "disconnect"), t, close_raises))

\* get_info, lines 164-166
StartGetInfo(t) ==
  /\ Idle(t)
  /\ Commit(send_command([begin(Cur, t, "get_info") EXCEPT !.task[t].meth = "get_info"],
                         t, <<"I">>))

StartGetOutputTie(t) ==
  /\ Idle(t)
  /\ \E output \in 1..MaxOutputs :
       Commit(get_output_tie(
                [begin(Cur, t, "get_output_tie") EXCEPT !.task[t].output = output],
                t, output))

SetTie(t, input_num, output) ==
  /\ Idle(t)
  /\ Commit(set_output_tie(begin(Cur, t, "set_output_tie"), t, input_num, output))

StartSetOutputTie(t) ==
  \E input_num \in 0..(MaxInputs + 1), output \in 1..MaxOutputs :
    SetTie(t, input_num, output)

StartGetAllTies(t) ==
  /\ Idle(t)
  /\ \E n \in 0..MaxOutputs : Commit(get_all_ties(begin(Cur, t, "get_all_ties"), t, n))

\* ExtronDataUpdateCoordinator._async_update_data, coordinator.py lines 50-55
StartUpdate(t) ==
  /\ Idle(t)
  /\ \E num_outputs \in 1..MaxOutputs :
       Commit(get_all_ties(begin(Cur, t, "update"), t, num_outputs))

\* ExtronOutputSelect.async_select_option, select.py lines 68-76, into
\* coordinator.async_set_output_tie, coordinator.py lines 60-63
SelectOption(t, option, output, num_outputs) ==
  /\ Idle(t)
  /\ Commit(set_output_tie(
              [begin(Cur, t, "select_option") EXCEPT !.task[t].n = num_outputs],
              t, OptionToInput(option), output))

Options == {OptionNone} \cup {OptionInput(i) : i \in 1..MaxInputs}

StartSelectOption(t) ==
  \E num_outputs \in 1..MaxOutputs :
    \E option \in Options, output \in 1..num_outputs :
      SelectOption(t, option, output, num_outputs)

\* coordinator.async_set_output_tie, lines 65-67: the sleep is over, refresh
SleepDone(t) ==
  /\ task[t].pc = "sleep"
  /\ Commit(get_all_ties(Cur, t, task[t].n))

\* a lock that is granted at once
LockFree_NoWait(s) == TRUE

\* asyncio.Lock.locked() is false
LockFree(s) == s.lock = None

\* _send_command, lines 139-141: the lock is free and the task takes it
Acquire(t) ==
  /\ task[t].pc = "lock"
  /\ LockFree(Cur)
  /\ Commit(ensure_connected(
              [Hist(Cur, [Cur EXCEPT !.task[t].sc = "active", !.task[t].steps = <<>>])
                 EXCEPT !.lock = t], t))

\* the stream pair open_connection returns: the lowest unused handle
Opened(s, t, h, c) ==
  Ev([s EXCEPT !.conn[h] = c, !.reader = h, !.writer = h, !.task[t].rctx = "banner"],
     t, "open")

\* connect, lines 34-40: open_connection returned a stream to some peer
OpenOk(t) ==
  /\ task[t].pc = "open"
  /\ Unopened # {}
  /\ Commit(read_until_prompt(
              Opened(Cur, t, Min(Unopened),
                     [st |-> "open", dev |-> FALSE, auth |-> "ready", q |-> <<>>,
                      hs |-> FALSE]), t))

\* the same, the peer being the device
OpenDevice(t) ==
  /\ task[t].pc = "open"
  /\ Unopened # {}
  /\ \E auth \in {"ready", "good", "other"} :
       Commit(read_until_prompt(
                Opened(Cur, t, Min(Unopened),
                       [st |-> "open", dev |-> TRUE, auth |-> auth,
                        q |-> Greeting(auth), hs |-> FALSE]), t))

OpenTimeout(t) ==
  /\ task[t].pc = "open"
  /\ Commit(connect_timeout(Ev(Cur, t, "ioerror"), t))

OpenError(t) ==
  /\ task[t].pc = "open"
  /\ Commit(connect_except(Ev(Cur, t, "ioerror"), t))

\* readuntil returns a line (line 105): whatever the peer sent
ReadLine(t) ==
  /\ task[t].pc = "read"
  /\ conn[task[t].rd].st = "open" /\ ~conn[task[t].rd].dev
  /\ \E line \in PeerLines : Commit(read_returned(Cur, t, line))

\* readuntil returns the next line of the device: its answer to the oldest
\* line it has not answered yet
ReadReply(t) ==
  /\ task[t].pc = "read"
  /\ LET h == task[t].rd
     IN  /\ conn[h].st = "open" /\ conn[h].dev
         /\ conn[h].q # <<>>
         /\ \E line \in (IF Head(conn[h].q).kind = "line" THEN {Head(conn[h].q).text}
                         ELSE DevReplies(Cur, conn[h].auth, Head(conn[h].q).text)) :
              Commit(read_returned(
                       Hist(DevApply(Cur, h),
                            [DevApply(Cur, h) EXCEPT !.task[t].reply_to = Head(conn[h].q)]),
                       t, line))

\* readuntil returns the answer to a command, any text: line 105 decodes and
\* strips it
ReadText(t) ==
  /\ task[t].pc = "read" /\ task[t].rctx = "cmd"
  /\ conn[task[t].rd].st = "open" /\ ~conn[task[t].rd].dev
  /\ \E text \in Texts : Commit(read_returned(Cur, t, Strip(text)))

\* wait_for timed out, lines 106-108
\* a read timeout that raises like any other read error
ReadTimeout_Raises(t) ==
  /\ task[t].pc = "read"
  /\ conn[task[t].rd].st = "open"
  /\ Commit(read_failed(Cur, t))

ReadTimeout(t) ==
  /\ task[t].pc = "read"
  /\ conn[task[t].rd].st = "open"
  /\ Commit(read_returned(Cur, t, <<>>))

\* the same, the device having nothing to send
ReadQuiet(t) ==
  /\ task[t].pc = "read"
  /\ conn[task[t].rd].dev /\ conn[task[t].rd].q = <<>>
  /\ ReadTimeout(t)

\* readuntil raised (lines 109-112); a closed stream is at its end
ReadError(t) ==
  /\ task[t].pc = "read"
  /\ Commit(read_failed(Ev(Cur, t, "ioerror"), t))

\* drain returned: line 135 into line 51, line 146 into line 149
DrainOk(t) ==
  /\ task[t].pc \in {"drain", "cdrain"}
  /\ Commit(read_response(Cur, t, IF task[t].pc = "drain" THEN "cmd" ELSE "login"))

DrainError(t) ==
  /\ task[t].pc \in {"drain", "cdrain"}
  /\ Commit(IF task[t].pc = "drain" THEN send_command_except(Ev(Cur, t, "ioerror"), t)
            ELSE connect_except(Ev(Cur, t, "ioerror"), t))

\* wait_closed returned or raised, lines 76-83
WaitClosed(t) ==
  /\ task[t].pc = "closing"
  /\ \E ok \in BOOLEAN :
       Commit(disconnect_finally(IF ok THEN Cur ELSE Ev(Cur, t, "closeerror"), t))

Init ==
  /\ reader = None
  /\ writer = None
  /\ connected = FALSE
  /\ lock = None
  /\ password \in {NoPassword, GoodPassword}
  /\ conn = [h \in Handles |->
              [st |-> "unopened", dev |-> FALSE, auth |-> "ready", q |-> <<>>,
               hs |-> FALSE]]
  /\ devTies = [o \in 1..MaxOutputs |-> 0]
  /\ task = [t \in Tasks |-> IdleTask]
  /\ calls = MaxCalls
  /\ acked = [o \in 1..MaxOutputs |-> None]
  /\ history = FALSE

\* a suspended task goes on: the lock is granted, or the awaited stream
\* operation returns or raises
Resume(t) ==
  \/ Acquire(t)
  \/ OpenOk(t)
  \/ OpenTimeout(t)
  \/ OpenError(t)
  \/ ReadLine(t)
  \/ ReadTimeout(t)
  \/ ReadError(t)
  \/ DrainOk(t)
  \/ DrainError(t)
  \/ WaitClosed(t)

\* NumTasks tasks call the client concurrently, against any peer
Next ==
  \E t \in Tasks :
    \/ StartConnect(t)
    \/ StartDisconnect(t)
    \/ StartGetInfo(t)
    \/ StartGetOutputTie(t)
    \/ StartSetOutputTie(t)
    \/ Resume(t)

Spec == Init /\ [][Next]_vars

\* one caller at a time, every entry point, against any peer; the history of
\* each call is kept
InitSeq ==
  /\ reader = None
  /\ writer = None
  /\ connected = FALSE
  /\ lock = None
  /\ password \in {NoPassword, GoodPassword}
  /\ conn = [h \in Handles |->
              [st |-> "unopened", dev |-> FALSE, auth |-> "ready", q |-> <<>>,
               hs |-> FALSE]]
  /\ devTies = [o \in 1..MaxOutputs |-> 0]
  /\ task = [t \in Tasks |-> IdleTask]
  /\ calls = SeqCalls
  /\ acked = [o \in 1..MaxOutputs |-> None]
  /\ history = TRUE

NextSeq ==
  \/ StartConnect(1)
  \/ StartDisconnect(1)
  \/ StartGetInfo(1)
  \/ StartGetOutputTie(1)
  \/ StartSetOutputTie(1)
  \/ StartGetAllTies(1)
  \/ StartUpdate(1)
  \/ StartSelectOption(1)
  \/ SleepDone(1)
  \/ Resume(1)

SpecSeq == InitSeq /\ [][NextSeq]_vars

\* one caller at a time sets and gets ties against the device, the transport
\* being free of faults
NextEcho ==
  \/ StartGetOutputTie(1)
  \/ StartSetOutputTie(1)
  \/ Acquire(1)
  \/ OpenDevice(1)
  \/ ReadReply(1)
  \/ ReadQuiet(1)
  \/ DrainOk(1)

SpecEcho == InitSeq /\ [][NextEcho]_vars

\* one caller gets and sets ties; the peer answers a command with any text
NextParse ==
  \/ StartGetOutputTie(1)
  \/ StartSetOutputTie(1)
  \/ Acquire(1)
  \/ OpenOk(1)
  \/ ReadText(1)
  \/ ReadTimeout(1)
  \/ DrainOk(1)

SpecParse == InitSeq /\ [][NextParse]_vars

\* one caller sends commands to the device, which may answer after the read
\* timed out
NextLate ==
  \/ StartGetInfo(1)
  \/ StartGetOutputTie(1)
  \/ StartSetOutputTie(1)
  \/ Acquire(1)
  \/ OpenDevice(1)
  \/ ReadReply(1)
  \/ ReadTimeout(1)
  \/ DrainOk(1)

SpecLate == InitSeq /\ [][NextLate]_vars

\* ------------------------------------------------------------ properties
\* task t is between the write of its command line and the end of the read
\* of the response (lines 143-149)
InFlight(t) ==
  task[t].pc = "drain" \/ (task[t].pc = "read" /\ task[t].rctx = "cmd")

\* task t is in the body of "async with self._lock" (lines 140-162)
InBody(t) ==
  /\ task[t].api \notin {"none", "connect", "disconnect"}
  /\ task[t].pc \in {"open", "read", "cdrain", "drain"}

\* C1: while the command of one caller of _send_command is in flight (its
\* line is written and its response is not read yet), no other caller is in
\* the body of _send_command: none writes a command line, none reads, none
\* reconnects.
C1_OneCommandInFlight ==
  \A t1, t2 \in Tasks : InFlight(t1) /\ InBody(t2) => t1 = t2

\* one command is in flight and another caller waits for the lock
C1_Witness ==
  \E t1, t2 \in Tasks : InFlight(t1) /\ task[t2].pc = "lock" /\ lock = t1

\* C7: whenever no call is in progress the session is fully connected (the
\* handle is present and the connected flag is true) or fully disconnected
\* (the handle is absent and the connected flag is false).
C7_TwoStates ==
  (\A t \in Tasks : task[t].pc = "idle") =>
    \/ reader # None /\ writer # None /\ connected
    \/ reader = None /\ writer = None /\ ~connected

\* C8: when disconnect() returns, the handle is absent and the connected
\* flag is false; a disconnect() that finds no handle changes nothing and
\* touches no transport.
C8_DisconnectClears ==
  [][\A t \in Tasks :
       /\ (WaitClosed(t) \/ (StartDisconnect(t) /\ task'[t].pc = "idle")) =>
            (reader' = None /\ writer' = None /\ ~connected')
       /\ (StartDisconnect(t) /\ writer = None) =>
            UNCHANGED <<reader, writer, connected, lock, conn>>]_vars

\* the events of a call, as recorded in steps
Has(seq, e) == \E i \in 1..Len(seq) : seq[i] = e

Count(seq, e) == Cardinality({i \in 1..Len(seq) : seq[i] = e})

Last(seq) == seq[Len(seq)]

IsPrefix(p, seq) == Len(p) <= Len(seq) /\ SubSeq(seq, 1, Len(p)) = p

\* the call of task t goes through _send_command
IsCommand(r) == r.api \notin {"none", "connect", "disconnect"}

\* the API call itself raises what _send_command raises
IsDirect(r) == r.api \in {"get_info", "get_output_tie", "set_output_tie"}

\* a reconnect without and with the credential exchange, up to the write of
\* the command line
FullPlain == <<"reconnect", "open", "banner", "prompt", "connected", "write">>

FullAuth ==
  <<"reconnect", "open", "banner", "pwprompt", "cred", "login", "connected", "write">>

\* C2: a command whose write, drain or read raised leaves is_connected false
\* and raises to its caller (get_all_ties records the failure); a command
\* line is written without a reconnect only when is_connected was true, and
\* after a reconnect only once the transport was opened, the banner and the
\* prompt were read and, when prompted, the credential was exchanged; the
\* call raises only if an I/O error or a failed login happened in it, and
\* otherwise returns the response.
C2_ReconnectAfterFailure ==
  \A t \in Tasks :
    LET r == task[t]
        st == r.steps
    IN  IsCommand(r) =>
          /\ Has(st, "cmdfail") =>
                /\ ~is_connected(Cur) /\ lock = None
                /\ Has(st, "ioerror")
                /\ IsDirect(r) => r.pc = "idle" /\ r.result = Raised /\ r.sc = "raised_io"
                /\ InAllTies(r) => r.outcomes[Len(r.ties)] = "io"
          /\ (st = <<"write">> /\ r.pc = "drain") => is_connected(Cur)
          /\ Has(st, "write") =>
                \/ st[1] = "write"
                \/ IsPrefix(FullPlain, st)
                \/ IsPrefix(FullAuth, st)
          /\ r.sc \in {"raised_io", "raised_connect"} =>
                Has(st, "ioerror") \/ Has(st, "authfail")
          /\ r.sc = "returned" => Has(st, "write") /\ Last(st) = "response"

\* get_all_ties: the command for output 1 failed on I/O, the command for
\* output 2 reconnected in full and returned a response
C2_Witness ==
  \E t \in Tasks :
    LET r == task[t]
    IN  /\ r.api = "get_all_ties" /\ r.pc = "idle" /\ r.n = 2
        /\ r.outcomes[1] = "io" /\ r.outcomes[2] = "ok"
        /\ r.steps = FullAuth \o <<"response">>
        /\ is_connected(Cur)

\* C3: get_all_ties(n) returns a mapping with the keys 1..n, after it
\* queried every output; the value of an output whose call failed or whose
\* response did not parse is 0.
C3_AllTiesTotal ==
  \A t \in Tasks :
    LET r == task[t]
    IN  r.api = "get_all_ties" =>
          IF r.pc = "idle"
          THEN /\ r.result.kind = "value"
               /\ DOMAIN r.result.v = 1..r.n
               /\ DOMAIN r.outcomes = 1..r.n
               /\ \A o \in 1..r.n :
                    r.outcomes[o] \in {"io", "connect", "unparsed"} => r.result.v[o] = 0
          ELSE /\ r.idx \in 1..r.n
               /\ DOMAIN r.ties = 1..(r.idx - 1)
               /\ DOMAIN r.outcomes = 1..(r.idx - 1)

\* output 1 failed on I/O, output 2 on the reconnect, and get_all_ties
\* returned 0 for both; or the first failed and the second gave its tie
C3_Witness ==
  \E t \in Tasks :
    LET r == task[t]
    IN  /\ r.api = "get_all_ties" /\ r.pc = "idle" /\ r.n = 2
        /\ r.outcomes[1] = "io" /\ r.outcomes[2] = "ok"
        /\ r.result.v[1] = 0 /\ r.result.v[2] = 2

\* C4: a set_output_tie(0, output) that starts, from the API or from the
\* option "None", returns false at once: reader, writer, connected flag,
\* lock and connections are unchanged, nothing is written, the task does
\* not wait for the lock.
C4_UntieNoEffect ==
  [][\A t \in Tasks :
       (/\ task[t].pc = "idle" /\ calls' < calls
        /\ task'[t].meth = "set_output_tie" /\ task'[t].input_num = 0) =>
         /\ UNCHANGED <<reader, writer, connected, lock, conn, devTies>>
         /\ task'[t].setres = "false"
         /\ task'[t].steps = <<>> /\ task'[t].sc = "none"
         /\ IF task'[t].api = "set_output_tie"
            THEN task'[t].pc = "idle" /\ task'[t].result = Value(FALSE)
            ELSE task'[t].pc = "sleep"]_vars

\* the option "None" was selected on a connected session and
\* set_output_tie returned false
C4_Witness ==
  \E t \in Tasks :
    /\ task[t].api = "select_option" /\ task[t].pc = "sleep"
    /\ task[t].input_num = 0 /\ task[t].setres = "false"
    /\ is_connected(Cur) /\ lock = None

\* C5: _read_response reads at most RetryBudget + 1 lines; it reads on only
\* after a line that is noise; it returns the last line it read, which is
\* noise only when the budget is used up.
C5_ReadResponseBounded ==
  \A t \in Tasks :
    LET r == task[t]
        n == Len(r.lines)
    IN  /\ n <= RetryBudget + 1
        /\ \A i \in 1..(n - 1) : IsNoise(r.lines[i])
        /\ (r.pc = "read" /\ r.rctx # "banner") => n = r.retry_count /\ n <= RetryBudget
        /\ r.rr_done =>
             /\ n >= 1
             /\ r.rr_value = r.lines[n]
             /\ IsNoise(r.lines[n]) => n = RetryBudget + 1

\* every line was noise: _read_response returned the 4th
C5_Witness ==
  \E t \in Tasks :
    /\ task[t].rr_done /\ Len(task[t].lines) = RetryBudget + 1
    /\ IsNoise(task[t].rr_value)

\* C6: against the device, a get_output_tie(o) that returns while the last
\* set_output_tie on o returned true, with input i, returns i.
C6_RoundTrip ==
  \A t \in Tasks :
    LET r == task[t]
    IN  (/\ r.api = "get_output_tie" /\ r.pc = "idle" /\ r.result.kind = "value"
         /\ acked[r.output] # None) =>
          r.result.v = acked[r.output]

\* set_output_tie(i, o) returned true and get_output_tie(o) returned i
C6_Witness ==
  \E t \in Tasks :
    LET r == task[t]
    IN  /\ r.api = "get_output_tie" /\ r.pc = "idle" /\ r.result.kind = "value"
        /\ acked[r.output] >= 1 /\ r.result.v = acked[r.output]
        /\ devTies[r.output] = r.result.v

\* C9: in a connect whose prompt carried the password marker: without a
\* credential nothing is written and the connect fails; with one it is
\* written once, the session gets connected only on a login response that
\* contains the marker, and the connect fails on one that does not; after a
\* failed login is_connected is false.
C9_PasswordHandshake ==
  \A t \in Tasks :
    LET r == task[t]
        st == r.steps
    IN  Has(st, "pwprompt") =>
          /\ IF password = NoPassword
             THEN /\ ~Has(st, "cred") /\ ~Has(st, "write") /\ ~Has(st, "connected")
                  /\ Has(st, "authfail")
                  /\ Contains(r.rr_value, PasswordMarker)
             ELSE /\ Count(st, "cred") = 1
                  /\ r.pc = "cdrain" => Contains(r.rr_value, PasswordMarker)
                  /\ Has(st, "connected") => Has(st, "login")
                  /\ Has(st, "write") => Has(st, "connected")
                  /\ (Has(st, "login") /\ Last(st) \in {"connected", "write"}) =>
                       Contains(r.rr_value, LoginMarker)
                  /\ Has(st, "authfail") => ~Contains(r.rr_value, LoginMarker)
          /\ Has(st, "authfail") =>
                /\ Last(st) = "connectfail"
                /\ ~is_connected(Cur)
                /\ r.api = "connect" => r.pc = "idle" /\ r.result = Raised

\* a credential was sent and the login response did not carry the marker
C9_Witness ==
  \E t \in Tasks :
    /\ task[t].api = "connect" /\ task[t].pc = "idle" /\ task[t].result = Raised
    /\ Has(task[t].steps, "cred") /\ Has(task[t].steps, "authfail")
    /\ reader # None

\* C10: a command whose reconnect failed raises to its caller
\* (get_all_ties records the failure), its command line was not written,
\* is_connected is false and the lock is free.
C10_ReconnectFailureAborts ==
  \A t \in Tasks :
    LET r == task[t]
        st == r.steps
    IN  (IsCommand(r) /\ Has(st, "connectfail")) =>
          /\ st[1] = "reconnect" /\ Last(st) = "connectfail"
          /\ ~Has(st, "write") /\ ~Has(st, "cmdfail")
          /\ ~is_connected(Cur)
          /\ lock = None
          /\ r.pc \in {"idle", "lock"}
          /\ IsDirect(r) => r.pc = "idle" /\ r.result = Raised /\ r.sc = "raised_connect"
          /\ InAllTies(r) => r.outcomes[Len(r.ties)] = "connect"

\* the transport opened and the handshake failed: get_info raised
C10_Witness ==
  \E t \in Tasks :
    /\ task[t].api = "get_info" /\ task[t].pc = "idle"
    /\ task[t].sc = "raised_connect" /\ Has(task[t].steps, "open")
    /\ writer # None

\* the reference of the tie parse: the first "In<digits>" token, letters in
\* either case; else the trimmed text as a signed decimal integer; else 0
RefInTokens(text) ==
  {i \in 1..(Len(text) - 2) :
     /\ text[i] = "I" \/ text[i] = "i"
     /\ text[i + 1] = "N" \/ text[i + 1] = "n"
     /\ IsDigit(text[i + 2])}

RefDigitsFrom(text, k) ==
  LET ends == {j \in k..Len(text) : \A m \in k..j : IsDigit(text[m])}
  IN  SubSeq(text, k, CHOOSE j \in ends : \A m \in ends : m <= j)

RefIsInteger(text) ==
  \/ IsDigits(text)
  \/ Len(text) >= 2 /\ text[1] \in {"+", "-"} /\ IsDigits(Tail(text))

RefInteger(text) ==
  IF text[1] = "-" THEN -DigitsToNat(Tail(text))
  ELSE IF text[1] = "+" THEN DigitsToNat(Tail(text))
  ELSE DigitsToNat(text)

RefTieNumber(text) ==
  IF RefInTokens(text) # {}
  THEN DigitsToNat(RefDigitsFrom(text, 2 + CHOOSE i \in RefInTokens(text) :
                                        \A j \in RefInTokens(text) : i <= j))
  ELSE IF RefIsInteger(Strip(text)) THEN RefInteger(Strip(text))
  ELSE 0

\* C11: get_output_tie returns, for every response text, what the reference
\* of the tie parse gives for it.
C11_TieParseIsReference ==
  \A t \in Tasks :
    LET r == task[t]
    IN  (r.api = "get_output_tie" /\ r.pc = "idle" /\ r.sc = "returned") =>
          r.result = Value(RefTieNumber(r.rr_value))

\* the text holds the letters O, u, t in a row
RefHasOut(text) ==
  \E i \in 1..(Len(text) - 2) :
    text[i] = "O" /\ text[i + 1] = "u" /\ text[i + 2] = "t"

\* C12: for a non-zero input and every response text, set_output_tie
\* returns true exactly when the text holds "Out" and does not begin with
\* "E"; so false for the empty text of a read timeout and for an error
\* response.
C12_SetAckExact ==
  \A t \in Tasks :
    LET r == task[t]
    IN  (r.api = "set_output_tie" /\ r.pc = "idle" /\ r.sc = "returned") =>
          /\ r.input_num # 0
          /\ r.result =
               Value(RefHasOut(r.rr_value) /\ ~(r.rr_value # <<>> /\ r.rr_value[1] = "E"))
          /\ r.rr_value = <<>> => r.result = Value(FALSE)

\* the response holds "Out" after the error marker: set_output_tie
\* returned false
C12_Witness ==
  \E t \in Tasks :
    LET r == task[t]
    IN  /\ r.api = "set_output_tie" /\ r.pc = "idle" /\ r.sc = "returned"
        /\ r.input_num >= 1
        /\ RefHasOut(r.rr_value) /\ r.rr_value[1] = "E"
        /\ r.result = Value(FALSE)

\* task t is inside connect: at open_connection or in the handshake
InConnect(t) ==
  \/ task[t].pc = "open"
  \/ task[t].pc = "cdrain"
  \/ task[t].pc = "read" /\ task[t].rctx \in {"banner", "prompt", "login"}

\* C13: is_connected holds only when a handshake ran to its end on the
\* handle now stored, and at no await of a connect that began while
\* is_connected was false.
C13_ConnectedAfterHandshake ==
  /\ is_connected(Cur) => conn[writer].hs
  /\ \A t \in Tasks :
       (InConnect(t) /\ task[t].cfrom = "disconnected") => ~is_connected(Cur)

\* C14: a refresh in which the command of every queried output failed, on
\* the reconnect or on I/O, ends by raising (UpdateFailed) and delivers no
\* tie map.
C14_RefreshFailureRaises ==
  \A t \in Tasks :
    LET r == task[t]
    IN  (/\ r.api = "update" /\ r.pc = "idle" /\ r.n >= 1
         /\ \A o \in 1..r.n : r.outcomes[o] \in {"io", "connect"}) =>
          r.result.kind = "raise"

\* the connections the client opened and did not close
OpenHandles == {h \in Handles : conn[h].st = "open"}

\* C15: at most one connection opened by the client is open.
C15_OneOpenConnection == Cardinality(OpenHandles) <= 1

\* C16: the response a command returns, when it is the device's answer to
\* a command, is the answer to the command of this call, never the answer
\* to an earlier one.
C16_OwnResponse ==
  \A t \in Tasks :
    LET r == task[t]
    IN  (/\ IsDirect(r) /\ r.pc = "idle" /\ r.sc = "returned"
         /\ r.reply_to.kind = "cmd") =>
          r.reply_to = [kind |-> "cmd", text |-> r.command, seq |-> calls]

\* C17: a read timeout is not a failure.  When the read of a command's
\* response times out, _send_command returns the empty text and does not
\* raise, and the session is as it was: is_connected still holds, the handles
\* are kept, so the next command does not reconnect.
C17_TimeoutIsNoFailure ==
  [][\A t \in Tasks :
       (ReadTimeout(t) /\ task[t].rctx = "cmd") =>
         /\ connected' = connected /\ writer' = writer /\ reader' = reader
         /\ conn' = conn
         /\ connected' /\ writer' # None
         /\ task'[t].rr_done /\ task'[t].rr_value = <<>>
         /\ Last(task'[t].steps) = "response"
         /\ ~Has(task'[t].steps, "cmdfail") /\ ~Has(task'[t].steps, "ioerror")
         /\ lock' # t
         /\ task[t].meth = "get_info" => task'[t].result = Value(<<>>)
         /\ IsDirect(task[t]) => (task'[t].pc = "idle"
                                    /\ task'[t].sc = "returned"
                                    /\ task'[t].result.kind # "raise")]_vars

\* a get_info whose read timed out has returned the empty text, and the
\* session is still connected
C17_Witness ==
  \E t \in Tasks :
    LET r == task[t]
    IN  /\ r.api = "get_info" /\ r.pc = "idle" /\ r.sc = "returned"
        /\ r.rr_done /\ r.rr_value = <<>> /\ r.result = Value(<<>>)
        /\ connected /\ writer # None

\* C18: every tie value the client reports is an integer >= 0: the value
\* get_output_tie returns, and every value of the mapping get_all_ties
\* returns.
C18_TieNotNegative ==
  \A t \in Tasks :
    LET r == task[t]
    IN  (r.pc = "idle" /\ r.result.kind = "value") =>
          /\ r.api = "get_output_tie" => r.result.v >= 0
          /\ r.api = "get_all_ties" => \A o \in DOMAIN r.result.v : r.result.v[o] >= 0

\* C19: the lock is held only while a _send_command call is in progress:
\* its holder is a task in the body of _send_command.  After the call
\* returned a response, failed on the reconnect or failed on a write or a
\* read error the lock is free, so a caller waiting for it is not blocked
\* when no call is in the body.
C19_LockOnlyInCall ==
  /\ lock # None => (lock \in Tasks /\ InBody(lock))
  /\ \A t \in Tasks : task[t].pc \in {"idle", "lock", "sleep", "closing"} => lock # t
  /\ (\A u \in Tasks : ~InBody(u)) => LockFree(Cur)

\* one caller's command has failed and another caller waits for the lock,
\* which is free
C19_Witness ==
  \E t1, t2 \in Tasks :
    /\ t1 # t2
    /\ task[t1].pc = "idle" /\ IsDirect(task[t1]) /\ task[t1].result.kind = "raise"
    /\ task[t2].pc = "lock" /\ lock = None

\* the events of connect: the transport open and the handshake
ConnectEvents ==
  {"open", "banner", "prompt", "pwprompt", "cred", "login", "authfail",
   "connected", "connectfail"}

\* a task arrives at open_connection in this step
OpenAttempt(t) == task[t].pc # "open" /\ task'[t].pc = "open"

\* C20: reconnection is lazy and single-shot.  A transport open is attempted
\* only by a connect() call or at the start of a _send_command call that
\* finds is_connected false; a _send_command call that finds is_connected
\* true opens nothing and runs no handshake; one _send_command call makes at
\* most one connect attempt and writes its command line at most once.
C20_LazySingleShot ==
  /\ [](\A t \in Tasks :
          LET r == task[t]
              st == r.steps
          IN  /\ r.pc = "open" =>
                    r.api = "connect" \/ (IsCommand(r) /\ st = <<"reconnect">>)
              /\ IsCommand(r) =>
                    /\ Count(st, "reconnect") <= 1 /\ Count(st, "open") <= 1
                    /\ Count(st, "write") <= 1 /\ Count(st, "connected") <= 1
                    /\ Has(st, "reconnect") => st[1] = "reconnect"
                    /\ (st # <<>> /\ st[1] # "reconnect") =>
                          \A i \in 1..Len(st) : st[i] \notin ConnectEvents)
  /\ [][\A t \in Tasks :
         /\ OpenAttempt(t) =>
               \/ task[t].pc = "idle" /\ task'[t].api = "connect"
               \/ task[t].pc = "lock" /\ ~is_connected(Cur)
         /\ (task[t].pc = "lock" /\ task'[t].pc # "lock" /\ is_connected(Cur)) =>
               /\ task'[t].pc = "drain" /\ task'[t].steps = <<"write">>
               /\ conn' = [conn EXCEPT ![writer].q = conn'[writer].q]
               /\ writer' = writer /\ reader' = reader]_vars

\* a command found the session connected: it wrote its line once, read the
\* response and returned, with no open and no handshake
C20_Witness ==
  \E t \in Tasks :
    LET r == task[t]
    IN  /\ IsDirect(r) /\ r.pc = "idle" /\ r.sc = "returned"
        /\ r.steps = <<"write", "response">>
        /\ is_connected(Cur)

\* C21: disconnect() clears only the handle it closed.  When its wait for
\* the close ends, in whatever interleaving with a connect() or a
\* reconnecting _send_command of another caller, the handle it removes from
\* the client is the one it closed: no connection opened meanwhile is
\* dropped while still open, and no connected session is reset.
C21_DisconnectOwnHandle ==
  [][\A t \in Tasks :
       WaitClosed(t) =>
         /\ writer \in {None, task[t].rd}
         /\ reader \in {None, task[t].rd}
         /\ writer # None => conn[writer].st # "open"
         /\ connected => writer = task[t].rd]_vars

====
